---- MODULE Spec2Model ----
(***************************************************************************)
(* A model of android-translations (src/main.go, lines 1-469): the tool    *)
(* finds the string catalogs of an Android project, parses them into a     *)
(* locale index and reports the strings that locales miss or hold in an    *)
(* older version than the default locale.                                  *)
(*                                                                         *)
(* A Go string is modelled as a sequence of one-character strings, so that *)
(* splitting, case folding, comparison and formatting are computed.        *)
(***************************************************************************)
EXTENDS Integers, Sequences, FiniteSets, TLC

VARIABLES
    pc,               \* position of the program: init(), main() and its callees
    outdatedLocales,  \* flag --outdated-locales
    outputFormat,     \* flag --output-format
    valuesFiles,      \* result of findValuesFiles
    fileIdx,          \* findTranslatableStrings: index of the file in the outer loop
    si,               \* index in resources.Strings (1-based)
    ai,               \* index in resources.StringArrays (1-based)
    ii,               \* index i of the item loop (0-based, as in the code)
    strResources,     \* the locale index built by findTranslatableStrings
    err,              \* the local err of the last provenance resolution
    clock,            \* the last value time.Now() returned
    warnings,         \* number of "warning:" lines written to stderr
    inserted,         \* history: the elements whose value was stored in the index
    report,           \* main: the report slice
    prevReport,       \* the report of the previous computation on the same index
    rerun,            \* whether the computation was repeated on the same index
    output,           \* what is printed on stdout
    exitCode,         \* -1 while running, 0 after main returned, 1 after fatal
    fatalMsg,         \* which fatal() call ended the run
    call              \* the argument and the result of a pure function under test

mainVars == <<pc, outdatedLocales, outputFormat, valuesFiles, fileIdx, si, ai, ii,
              strResources, err, clock, warnings, inserted, report, prevReport,
              rerun, output, exitCode, fatalMsg>>

vars == <<pc, outdatedLocales, outputFormat, valuesFiles, fileIdx, si, ai, ii,
          strResources, err, clock, warnings, inserted, report, prevReport,
          rerun, output, exitCode, fatalMsg, call>>

(***************************************************************************)
(* Bounds of the model.                                                    *)
(***************************************************************************)
\* commit times and clock readings range over 0..MaxTime
MaxTime == 1
\* getLineRange is applied to every content of at most this length
MaxContentLen == 4
\* ... and every search term of at most this length
MaxTermLen == 2
\* getLocaleForValuesFile is applied to "values" followed by at most this many characters
MaxSuffixLen == 4

(***************************************************************************)
(* Strings: the functions of the Go library the program uses.              *)
(***************************************************************************)
\* the characters of the model in the order of their byte values ("BACKTICK"
\* stands for the character 0x60, which a TLA+ string cannot hold)
Ascii == << "\t", "\n", " ", "&", ",", "-", ".",
            "0", "1", "2", "3", "4", "5", "6", "7", "8", "9", ";", "<", ">",
            "A", "E", "F", "L", "M", "S", "U", "V", "X",
            "[", "]", "BACKTICK",
            "a", "b", "c", "d", "e", "f", "g", "h", "i", "j", "k", "l", "m",
            "n", "o", "p", "q", "r", "s", "t", "u", "v", "w", "x", "y", "z" >>

AsciiCode ==
    [c \in {Ascii[i] : i \in 1..Len(Ascii)} |-> CHOOSE i \in 1..Len(Ascii) : Ascii[i] = c]

Ord(c) == AsciiCode[c]

UpperCase == << "A", "E", "F", "L", "M", "S", "U", "V", "X" >>
LowerCase == << "a", "e", "f", "l", "m", "s", "u", "v", "x" >>

\* unicode.SimpleFold restricted to the letters of the model
FoldChar(c) ==
    IF \E i \in 1..Len(UpperCase) : UpperCase[i] = c
    THEN LowerCase[CHOOSE i \in 1..Len(UpperCase) : UpperCase[i] = c]
    ELSE c

\* strings.EqualFold
EqualFold(s, t) ==
    /\ Len(s) = Len(t)
    /\ \A i \in 1..Len(s) : FoldChar(s[i]) = FoldChar(t[i])

\* the Go operator < on strings: bytewise lexicographic
RECURSIVE StrLess(_, _)
StrLess(s, t) ==
    IF t = <<>> THEN FALSE
    ELSE IF s = <<>> THEN TRUE
    ELSE IF Head(s) = Head(t) THEN StrLess(Tail(s), Tail(t))
    ELSE Ord(Head(s)) < Ord(Head(t))

\* strings.HasPrefix
HasPrefix(s, prefix) ==
    Len(prefix) <= Len(s) /\ SubSeq(s, 1, Len(prefix)) = prefix

\* strings.Index, 1-based; 0 when substr does not occur (Go: -1)
RECURSIVE IndexFrom(_, _, _)
IndexFrom(s, substr, i) ==
    IF i + Len(substr) - 1 > Len(s) THEN 0
    ELSE IF SubSeq(s, i, i + Len(substr) - 1) = substr THEN i
    ELSE IndexFrom(s, substr, i + 1)

Index(s, substr) == IndexFrom(s, substr, 1)

\* strings.explode with n < 0: one string per character
explode(s) == [i \in 1..Len(s) |-> <<s[i]>>]

\* strings.genSplit for a non-empty separator: at most n pieces, all when n < 0
RECURSIVE genSplit(_, _, _)
genSplit(s, sep, n) ==
    LET m == Index(s, sep)
    IN  IF n = 1 \/ m = 0 THEN <<s>>
        ELSE <<SubSeq(s, 1, m - 1)>>
                 \o genSplit(SubSeq(s, m + Len(sep), Len(s)), sep, n - 1)

\* strings.SplitN (n # 0)
SplitN(s, sep, n) ==
    IF sep = <<>>
    THEN IF n < 0 \/ n >= Len(s) THEN explode(s)
         ELSE explode(SubSeq(s, 1, n - 1)) \o <<SubSeq(s, n, Len(s))>>
    ELSE genSplit(s, sep, n)

\* strings.Split
Split(s, sep) == SplitN(s, sep, -1)

\* strings.Count
Count(s, substr) ==
    IF substr = <<>> THEN Len(s) + 1 ELSE Len(genSplit(s, substr, -1)) - 1

IsSpace(c) == c \in {" ", "\t", "\n"}

\* strings.TrimSpace
RECURSIVE TrimLeft(_)
TrimLeft(s) == IF s # <<>> /\ IsSpace(Head(s)) THEN TrimLeft(Tail(s)) ELSE s
RECURSIVE TrimRight(_)
TrimRight(s) ==
    IF s # <<>> /\ IsSpace(s[Len(s)]) THEN TrimRight(SubSeq(s, 1, Len(s) - 1)) ELSE s
TrimSpace(s) == TrimRight(TrimLeft(s))

\* strings.Join
RECURSIVE Join(_, _)
Join(elems, sep) ==
    IF elems = <<>> THEN <<>>
    ELSE IF Len(elems) = 1 THEN elems[1]
    ELSE elems[1] \o sep \o Join(Tail(elems), sep)

Digits == << "0", "1", "2", "3", "4", "5", "6", "7", "8", "9" >>

\* fmt.Sprintf("%d", n) for n >= 0
RECURSIVE Decimal(_)
Decimal(n) ==
    IF n < 10 THEN <<Digits[n + 1]>> ELSE Decimal(n \div 10) \o <<Digits[(n % 10) + 1]>>

IsDigit(c) == \E d \in 1..10 : Digits[d] = c
DigitValue(c) == (CHOOSE d \in 1..10 : Digits[d] = c) - 1

RECURSIVE DigitsValue(_)
DigitsValue(s) ==
    IF s = <<>> THEN 0 ELSE 10 * DigitsValue(SubSeq(s, 1, Len(s) - 1)) + DigitValue(s[Len(s)])

\* strconv.ParseInt(s, 10, 64): an optional sign and at least one digit
ParseInt(s) ==
    LET signed == s # <<>> /\ Head(s) \in {"-"}
        body   == IF signed THEN Tail(s) ELSE s
    IN  IF body = <<>> \/ \E i \in 1..Len(body) : ~IsDigit(body[i])
        THEN [err |-> TRUE, value |-> 0]
        ELSE [err |-> FALSE,
              value |-> IF signed THEN 0 - DigitsValue(body) ELSE DigitsValue(body)]

\* the sequences over S of length at most n
SeqsUpTo(S, n) == UNION {[1..k -> S] : k \in 0..n}

\* filepath.Base(filepath.Dir(path)) of a path given by its components
ParentName(path) == IF Len(path) >= 2 THEN path[Len(path) - 1] ELSE <<".">>

\* filepath.Base(path)
Base(path) == path[Len(path)]

\* filepath.Ext of a file name: from the last dot on
RECURSIVE Ext(_)
Ext(name) ==
    IF name = <<>> THEN <<>>
    ELSE IF Ext(Tail(name)) # <<>> THEN Ext(Tail(name))
    ELSE IF Head(name) = "." THEN name
    ELSE <<>>

(***************************************************************************)
(* Constants of the program.                                               *)
(***************************************************************************)
doNotTranslateFileName ==
    << "d", "o", "n", "o", "t", "t", "r", "a", "n", "s", "l", "a", "t", "e",
       ".", "x", "m", "l" >>

defaultLocale == << "d", "e", "f", "a", "u", "l", "t" >>

sValues == << "v", "a", "l", "u", "e", "s" >>
sFalse == << "f", "a", "l", "s", "e" >>
sDotXml == << ".", "x", "m", "l" >>
NL == << "\n" >>

(***************************************************************************)
(* Pure functions.                                                         *)
(***************************************************************************)
\* IsTranslatable comparing with == instead of strings.EqualFold
IsTranslatableCaseSensitive(translatable) == translatable # sFalse

\* xmlTranslatable.IsTranslatable
IsTranslatable(translatable) == ~EqualFold(sFalse, translatable)

\* isValuesFile
isValuesFile(path) ==
    IF doNotTranslateFileName = Base(path) THEN FALSE
    ELSE HasPrefix(ParentName(path), sValues) /\ EqualFold(sDotXml, Ext(Base(path)))

\* getLocaleForValuesFile with the name split at every hyphen
getLocaleSplitAtEveryHyphen(path) ==
    LET parent == ParentName(path)
        split  == Split(parent, <<"-">>)
    IN  IF EqualFold(parent, sValues) THEN defaultLocale
        ELSE IF Len(split) < 2 THEN defaultLocale
        ELSE split[2]

\* getLocaleForValuesFile
getLocaleForValuesFile(path) ==
    LET parent == ParentName(path)
        split  == SplitN(parent, <<"-">>, 2)
    IN  IF EqualFold(parent, sValues) THEN defaultLocale
        ELSE IF Len(split) < 2 THEN defaultLocale
        ELSE split[2]

\* getLineRange
getLineRange(fileContent, searchTerm) ==
    LET chunks == Split(fileContent, searchTerm)
    IN  IF Len(chunks) < 2
        THEN [start |-> 0, count |-> 0, err |-> TRUE]
        ELSE [start |-> 1 + Count(chunks[1], NL),
              count |-> 1 + Count(searchTerm, NL),
              err   |-> FALSE]

\* getLastModifiedTime, given what the blame command did: whether cmd.Run failed
\* and what it wrote to stdout. The zero time.Time is modelled as 0.
getLastModifiedTime(runErr, stdout) ==
    LET trimmed == TrimSpace(stdout)
        lines   == Split(trimmed, NL)
        stamps == {ParseInt(lines[i]).value : i \in 1..Len(lines)}
    IN  IF runErr THEN [time |-> 0, err |-> "blame"]
        ELSE IF \E i \in 1..Len(lines) : ParseInt(lines[i]).err
        THEN [time |-> 0, err |-> "timestamp"]
        ELSE [time |-> CHOOSE t \in stamps \cup {0} : \A u \in stamps \cup {0} : u <= t,
              err  |-> "nil"]

\* time.Time.Before
Before(t, u) == t < u

\* Less with the comparison turned around
LessDescending(a, b) == StrLess(b.Name, a.Name)

\* stringResources.Less
Less(a, b) == StrLess(a.Name, b.Name)

\* sort.Sort(stringResources(report)): the names of a report are distinct, so
\* every sorting algorithm yields the same order
RECURSIVE SortInsert(_, _)
SortInsert(r, sorted) ==
    IF sorted = <<>> THEN <<r>>
    ELSE IF Less(r, Head(sorted)) THEN <<r>> \o sorted
    ELSE <<Head(sorted)>> \o SortInsert(r, Tail(sorted))

RECURSIVE Sort(_)
Sort(data) == IF data = <<>> THEN <<>> ELSE SortInsert(Head(data), Sort(Tail(data)))

\* stringResource.MissingLocalesString
MissingLocalesString(res) ==
    IF Len(res.MissingLocales) = 0 THEN <<"-">> ELSE Join(res.MissingLocales, <<",", " ">>)

\* stringResource.OutdatedLocalesString
OutdatedLocalesString(res) ==
    IF Len(res.OutdatedLocales) = 0 THEN <<"-">> ELSE Join(res.OutdatedLocales, <<",", " ">>)

(***************************************************************************)
(* The environment: the files of the project and the answers of git.       *)
(***************************************************************************)
dValuesDe == sValues \o << "-", "d", "e" >>
dValuesFr == sValues \o << "-", "f", "r" >>
fStrings == << "s", "t", "r", "i", "n", "g", "s" >> \o sDotXml
fColors == << "c", "o", "l", "o", "r", "s" >> \o sDotXml
fNt == << "n", "t" >> \o sDotXml
fArrays == << "a", "r", "r", "a", "y", "s" >> \o sDotXml
fBroken == << "b", "r", "o", "k", "e", "n" >> \o sDotXml

\* The files a project may hold, each with its content and with what
\* xml.Unmarshal decodes from it (xmlStringResources). A project is a subset.
Universe == {
    \* a catalog without string resources
    [path |-> <<sValues, fColors>>, wellFormed |-> TRUE,
     content |-> << "<", ">" >>, Strings |-> <<>>, StringArrays |-> <<>>],
    \* a catalog of the default locale with non-translatable resources only
    [path |-> <<sValues, fNt>>, wellFormed |-> TRUE,
     content |-> << "x" >>,
     Strings |-> << [Name |-> <<"n">>, Value |-> <<"x">>, Translatable |-> sFalse] >>,
     StringArrays |-> << [Name |-> <<"d">>, Translatable |-> << "F", "a", "l", "s", "e" >>,
                          Items |-> << [Value |-> <<"x">>, Translatable |-> <<>>] >>] >>],
    \* the default strings: a two-line value and a non-translatable string
    [path |-> <<sValues, fStrings>>, wellFormed |-> TRUE,
     content |-> << "x", "\n", " ", "h", "i", "\n" >>,
     Strings |-> << [Name |-> <<"a">>, Value |-> << " ", "h", "i", "\n" >>, Translatable |-> <<>>],
                    [Name |-> <<"n">>, Value |-> <<"x">>,
                     Translatable |-> << "F", "A", "L", "S", "E" >>] >>,
     StringArrays |-> <<>>],
    \* a default array whose item holds a decoded entity (not in the content
    \* verbatim) and an attribute of its own
    [path |-> <<sValues, fArrays>>, wellFormed |-> TRUE,
     content |-> << "&", "l", "t", ";" >>,
     Strings |-> <<>>,
     StringArrays |-> << [Name |-> <<"c">>, Translatable |-> << "t", "r", "u", "e" >>,
                          Items |-> << [Value |-> <<"<">>, Translatable |-> sFalse] >>] >>],
    \* excluded by its name
    [path |-> <<sValues, doNotTranslateFileName>>, wellFormed |-> TRUE,
     content |-> << "x" >>,
     Strings |-> << [Name |-> <<"b">>, Value |-> <<"x">>, Translatable |-> <<>>] >>,
     StringArrays |-> <<>>],
    \* malformed markup
    [path |-> <<sValues, fBroken>>, wellFormed |-> FALSE,
     content |-> << "<" >>, Strings |-> <<>>, StringArrays |-> <<>>],
    [path |-> <<dValuesDe, fStrings>>, wellFormed |-> TRUE,
     content |-> << "h", "i" >>,
     Strings |-> << [Name |-> <<"a">>, Value |-> << "h", "i" >>, Translatable |-> <<>>] >>,
     StringArrays |-> <<>>],
    [path |-> <<dValuesFr, fStrings>>, wellFormed |-> TRUE,
     content |-> << "h", "i", "\n", "x" >>,
     Strings |-> << [Name |-> <<"a">>, Value |-> << "h", "i" >>, Translatable |-> <<>>] >>,
     StringArrays |-> << [Name |-> <<"c">>, Translatable |-> << "F", "A", "L", "S", "E" >>,
                          Items |-> << [Value |-> <<"x">>, Translatable |-> <<>>] >>] >>] }

UniversePaths == {c.path : c \in Universe}

\* A second catalog of the French locale, read before values-fr/strings.xml:
\* it declares the name a, which that file declares too, and the name c[0] as
\* a string and as the first item of the array c, each time with another value.
Duplicates == {
    [path |-> <<dValuesFr, fArrays>>, wellFormed |-> TRUE,
     content |-> << "y", "\n", "x" >>,
     Strings |-> << [Name |-> <<"a">>, Value |-> <<"y">>, Translatable |-> <<>>],
                    [Name |-> << "c", "[", "0", "]" >>, Value |-> <<"y">>,
                     Translatable |-> <<>>] >>,
     StringArrays |-> << [Name |-> <<"c">>, Translatable |-> <<>>,
                          Items |-> << [Value |-> <<"x">>, Translatable |-> <<>>] >>] >>] }

\* the files of the projects with catalogs of one locale that share names
DuplicatePaths ==
    {c.path : c \in Duplicates}
        \cup { <<sValues, fStrings>>, <<dValuesFr, fStrings>> }

CatalogOf ==
    [path \in UniversePaths \cup DuplicatePaths |->
        CHOOSE c \in Universe \cup Duplicates : c.path = path]

\* ioutil.ReadFile and xml.Unmarshal of a file of the project
Catalog(path) == CatalogOf[path]

\* the paths git check-ignore may report: a directory and a file
IgnoreCandidates == { <<dValuesFr>>, <<sValues, fArrays>> }

OutputFormats == {"json", "markdown", "yaml"}

\* what the blame pipeline may print for a range of count lines: one
\* committer-time line per commit that touches the range, or something else
TimeTokens == {Decimal(t) : t \in 0..MaxTime} \cup { <<"x">> }

BlameStdout(tokens) == IF tokens = <<>> THEN <<>> ELSE Join(tokens, NL) \o NL

BlameResults(count) ==
    {[runErr |-> TRUE, stdout |-> <<>>]}
        \cup {[runErr |-> FALSE, stdout |-> BlameStdout(tokens)] :
                 tokens \in SeqsUpTo(TimeTokens, count)}

\* the permutations of a finite set, as sequences: the orders in which a Go
\* range statement may visit the keys of a map
Perms(S) ==
    {p \in [1..Cardinality(S) -> S] : \A x \in S : \E i \in 1..Cardinality(S) : p[i] = x}

(***************************************************************************)
(* findValuesFiles                                                         *)
(***************************************************************************)
IsUnder(dir, p) == Len(p) > Len(dir) /\ SubSeq(p, 1, Len(dir)) = dir

\* ioutil.ReadDir: the names in a directory, sorted by name
RECURSIVE SortNames(_)
SortNames(S) ==
    IF S = {} THEN <<>>
    ELSE LET m == CHOOSE x \in S : \A y \in S \ {x} : StrLess(x, y)
         IN  <<m>> \o SortNames(S \ {m})

ReadDir(tree, dir) == SortNames({p[Len(dir) + 1] : p \in {q \in tree : IsUnder(dir, q)}})

IsDir(tree, p) == \E q \in tree : IsUnder(p, q)

\* findValuesFiles(path) over the files of tree, ignored being the paths git
\* check-ignore reports; walkFiles is its loop over the names of one directory
RECURSIVE findValuesFiles(_, _, _)
RECURSIVE walkFiles(_, _, _, _)
findValuesFiles(tree, ignored, path) == walkFiles(tree, ignored, path, ReadDir(tree, path))

walkFiles(tree, ignored, path, files) ==
    IF files = <<>> THEN <<>>
    ELSE LET filePath == path \o <<Head(files)>>
             rest     == walkFiles(tree, ignored, path, Tail(files))
         IN  IF filePath \in ignored THEN rest
             ELSE IF IsDir(tree, filePath)
             THEN findValuesFiles(tree, ignored, filePath) \o rest
             ELSE IF isValuesFile(filePath) THEN <<filePath>> \o rest
             ELSE rest

(***************************************************************************)
(* The program.                                                            *)
(***************************************************************************)
\* fatal: a message on stderr and os.Exit(1)
fatal(msg) ==
    /\ pc' = "fatal"
    /\ exitCode' = 1
    /\ fatalMsg' = msg

\* a Go map with the key k set to v
MapPut(m, k, v) == [x \in (DOMAIN m) \cup {k} |-> IF x = k THEN v ELSE m[x]]

\* the nil map and the empty map: neither has a key
EmptyMap == <<>>

MainInit ==
    /\ pc = "init"
    /\ outdatedLocales = FALSE
    /\ outputFormat = ""
    /\ valuesFiles = <<>>
    /\ fileIdx = 0
    /\ si = 0
    /\ ai = 0
    /\ ii = 0
    /\ strResources = EmptyMap
    /\ err = "nil"
    /\ clock = 0
    /\ warnings = 0
    /\ inserted = {}
    /\ report = <<>>
    /\ prevReport = <<>>
    /\ rerun = FALSE
    /\ output = <<>>
    /\ exitCode = -1
    /\ fatalMsg = ""

Init ==
    /\ MainInit
    /\ call = [fn |-> "none"]

\* init(): the flags are parsed and the output format is checked
ParseFlags ==
    /\ pc = "init"
    /\ \E o \in BOOLEAN, f \in OutputFormats :
        /\ outdatedLocales' = o
        /\ outputFormat' = f
        /\ IF f # "json" /\ f # "markdown"
           THEN fatal("format")
           ELSE pc' = "find" /\ UNCHANGED <<exitCode, fatalMsg>>
    /\ UNCHANGED <<valuesFiles, fileIdx, si, ai, ii, strResources, err, clock, warnings,
                   inserted, report, prevReport, rerun, output, call>>

\* main: findValuesFiles(projectDir) on some project; a directory that cannot
\* be read fails the walk, and git ignores none or one of IgnoreCandidates
MainFindValuesFiles ==
    /\ pc = "find"
    /\ \E readable \in BOOLEAN :
        IF ~readable
        THEN fatal("readdir") /\ UNCHANGED <<valuesFiles, fileIdx>>
        ELSE \E tree \in SUBSET UniversePaths :
               \E ignored \in {{}} \cup {{p} : p \in IgnoreCandidates} :
                 /\ valuesFiles' = findValuesFiles(tree, ignored, <<>>)
                 /\ fileIdx' = 1
                 /\ pc' = "parse"
                 /\ UNCHANGED <<exitCode, fatalMsg>>
    /\ UNCHANGED <<outdatedLocales, outputFormat, si, ai, ii, strResources, err, clock,
                   warnings, inserted, report, prevReport, rerun, output, call>>

\* main: findValuesFiles(projectDir) on a project of DuplicatePaths
MainFindDuplicateCatalogs ==
    /\ pc = "find"
    /\ \E readable \in BOOLEAN :
        IF ~readable
        THEN fatal("readdir") /\ UNCHANGED <<valuesFiles, fileIdx>>
        ELSE \E tree \in SUBSET DuplicatePaths :
               \E ignored \in {{}} \cup {{p} : p \in IgnoreCandidates} :
                 /\ valuesFiles' = findValuesFiles(tree, ignored, <<>>)
                 /\ fileIdx' = 1
                 /\ pc' = "parse"
                 /\ UNCHANGED <<exitCode, fatalMsg>>
    /\ UNCHANGED <<outdatedLocales, outputFormat, si, ai, ii, strResources, err, clock,
                   warnings, inserted, report, prevReport, rerun, output, call>>

\* ensureLocale without the test of strResCount
ensureLocaleAlways(m, locale, strResCount) ==
    IF locale \notin DOMAIN m THEN MapPut(m, locale, EmptyMap) ELSE m

\* findTranslatableStrings: the locale's map is made when the file declares
\* string or string-array elements
ensureLocale(m, locale, strResCount) ==
    IF locale \notin DOMAIN m /\ strResCount > 0 THEN MapPut(m, locale, EmptyMap) ELSE m

\* findTranslatableStrings: the head of the loop over the files; the file is
\* read and decoded, its locale found and the map of the locale made
OpenFile ==
    /\ pc = "parse"
    /\ fileIdx <= Len(valuesFiles)
    /\ LET file      == valuesFiles[fileIdx]
           resources == Catalog(file)
           locale    == getLocaleForValuesFile(file)
           strResCount == Len(resources.Strings) + Len(resources.StringArrays)
       IN  \E readable \in BOOLEAN :
            IF ~readable
            THEN /\ fatal("read")
                 /\ strResources' = EmptyMap
                 /\ UNCHANGED si
            ELSE IF ~resources.wellFormed
            THEN /\ fatal("parse")
                 /\ strResources' = EmptyMap
                 /\ UNCHANGED si
            ELSE /\ strResources' = ensureLocale(strResources, locale, strResCount)
                 /\ pc' = "strings"
                 /\ si' = 1
                 /\ UNCHANGED <<exitCode, fatalMsg>>
    /\ err' = "nil"
    /\ UNCHANGED <<outdatedLocales, outputFormat, valuesFiles, fileIdx, ai, ii, clock,
                   warnings, inserted, report, prevReport, rerun, output, call>>

\* findTranslatableStrings: a value's last modification. The line range is
\* looked up; blame is asked when it was found; now is what time.Now() returns
\* when either failed.
resolveErr(lineRange, blame) ==
    IF lineRange.err THEN "notfound"
    ELSE getLastModifiedTime(blame.runErr, blame.stdout).err

\* resolveTime without the fallback to time.Now(): the zero time stays
resolveTimeNoFallback(lineRange, blame, now) ==
    getLastModifiedTime(blame.runErr, blame.stdout).time

resolveTime(lineRange, blame, now) ==
    IF resolveErr(lineRange, blame) # "nil" THEN now
    ELSE getLastModifiedTime(blame.runErr, blame.stdout).time

\* storeString that keeps the entry the locale already has under the name
storeStringKeepFirst(m, locale, str, lastModified) ==
    IF str.Name \in DOMAIN m[locale] THEN m
    ELSE MapPut(m, locale,
                MapPut(m[locale], str.Name,
                       [Name |-> str.Name, Value |-> str.Value,
                        Translatable |-> str.Translatable, LastModified |-> lastModified]))

\* findTranslatableStrings: the entry str is stored under locale with its
\* last modification
storeString(m, locale, str, lastModified) ==
    MapPut(m, locale,
           MapPut(m[locale], str.Name,
                  [Name |-> str.Name, Value |-> str.Value,
                   Translatable |-> str.Translatable, LastModified |-> lastModified]))

\* the body of the two loops from getLineRange on, for the element str
Resolve(content, locale, str, source) ==
    LET lineRange == getLineRange(content, str.Value)
    IN  \E blame \in (IF lineRange.err THEN {[runErr |-> TRUE, stdout |-> <<>>]}
                      ELSE BlameResults(lineRange.count)) :
          \E now \in (IF resolveErr(lineRange, blame) # "nil" THEN clock..MaxTime
                      ELSE {clock}) :
            /\ err' = resolveErr(lineRange, blame)
            /\ clock' = now
            /\ warnings' = IF resolveErr(lineRange, blame) # "nil"
                           THEN warnings + 1 ELSE warnings
            /\ strResources' =
                   storeString(strResources, locale, str, resolveTime(lineRange, blame, now))
            /\ inserted' = inserted \cup {source}

\* findTranslatableStrings: one round of the loop over resources.Strings
RangeStrings ==
    /\ pc = "strings"
    /\ LET file      == valuesFiles[fileIdx]
           resources == Catalog(file)
           locale    == getLocaleForValuesFile(file)
       IN  IF si > Len(resources.Strings)
           THEN /\ pc' = "arrays"
                /\ ai' = 1
                /\ err' = "nil"
                /\ UNCHANGED <<si, strResources, clock, warnings, inserted>>
           ELSE /\ si' = si + 1
                /\ UNCHANGED <<pc, ai>>
                /\ IF ~IsTranslatable(resources.Strings[si].Translatable)
                   THEN /\ err' = "nil"
                        /\ UNCHANGED <<strResources, clock, warnings, inserted>>
                   ELSE Resolve(resources.content, locale, resources.Strings[si],
                                <<"string", fileIdx, si>>)
    /\ UNCHANGED <<outdatedLocales, outputFormat, valuesFiles, fileIdx, ii, report,
                   prevReport, rerun, output, exitCode, fatalMsg, call>>

\* findTranslatableStrings: one round of the loop over resources.StringArrays;
\* after the last array the next file is due
RangeStringArrays ==
    /\ pc = "arrays"
    /\ LET resources == Catalog(valuesFiles[fileIdx])
       IN  IF ai > Len(resources.StringArrays)
           THEN /\ pc' = "parse"
                /\ fileIdx' = fileIdx + 1
                /\ UNCHANGED <<ai, ii>>
           ELSE IF ~IsTranslatable(resources.StringArrays[ai].Translatable)
           THEN /\ ai' = ai + 1
                /\ UNCHANGED <<pc, fileIdx, ii>>
           ELSE /\ pc' = "items"
                /\ ii' = 0
                /\ UNCHANGED <<fileIdx, ai>>
    /\ err' = "nil"
    /\ UNCHANGED <<outdatedLocales, outputFormat, valuesFiles, si, strResources, clock,
                   warnings, inserted, report, prevReport, rerun, output, exitCode,
                   fatalMsg, call>>

\* the name of item i of a string-array: fmt.Sprintf("%s[%d]", strArr.Name, i)
itemName(strArr, i) == strArr.Name \o <<"[">> \o Decimal(i) \o <<"]">>

\* findTranslatableStrings: one round of the loop over strArr.Items
RangeItems ==
    /\ pc = "items"
    /\ LET file      == valuesFiles[fileIdx]
           resources == Catalog(file)
           locale    == getLocaleForValuesFile(file)
           strArr    == resources.StringArrays[ai]
       IN  IF ii >= Len(strArr.Items)
           THEN /\ pc' = "arrays"
                /\ ai' = ai + 1
                /\ err' = "nil"
                /\ UNCHANGED <<ii, strResources, clock, warnings, inserted>>
           ELSE /\ ii' = ii + 1
                /\ UNCHANGED <<pc, ai>>
                /\ Resolve(resources.content, locale,
                           [Name |-> itemName(strArr, ii),
                            Value |-> strArr.Items[ii + 1].Value,
                            Translatable |-> strArr.Items[ii + 1].Translatable],
                           <<"item", fileIdx, ai, ii>>)
    /\ UNCHANGED <<outdatedLocales, outputFormat, valuesFiles, fileIdx, si, report,
                   prevReport, rerun, output, exitCode, fatalMsg, call>>

\* findTranslatableStrings returns the index after the last file
ReturnStrings ==
    /\ pc = "parse"
    /\ fileIdx > Len(valuesFiles)
    /\ pc' = "main"
    /\ UNCHANGED <<outdatedLocales, outputFormat, valuesFiles, fileIdx, si, ai, ii,
                   strResources, err, clock, warnings, inserted, report, prevReport,
                   rerun, output, exitCode, fatalMsg, call>>

\* main: the strings of the default locale are looked up
CheckDefault ==
    /\ pc = "main"
    /\ IF defaultLocale \notin DOMAIN strResources
       THEN fatal("default")
       ELSE pc' = "compute" /\ UNCHANGED <<exitCode, fatalMsg>>
    /\ UNCHANGED <<outdatedLocales, outputFormat, valuesFiles, fileIdx, si, ai, ii,
                   strResources, err, clock, warnings, inserted, report, prevReport,
                   rerun, output, call>>

\* isOutdated with !After instead of Before
isOutdatedOrSame(localeStr, str) == ~Before(str.LastModified, localeStr.LastModified)

\* main: whether the copy localeStr of a locale is older than the default str
isOutdated(localeStr, str) == Before(localeStr.LastModified, str.LastModified)

\* main: the record of the default string str, the locales of the index
\* visited in the order localeOrder
strResource(localeStrings, str, localeOrder) ==
    LET missing(locale) == str.Name \notin DOMAIN localeStrings[locale]
        outdated(locale) ==
            /\ str.Name \in DOMAIN localeStrings[locale]
            /\ isOutdated(localeStrings[locale][str.Name], str)
    IN  [Name |-> str.Name,
         Value |-> TrimSpace(str.Value),
         MissingLocales |-> SelectSeq(localeOrder, missing),
         OutdatedLocales |-> SelectSeq(localeOrder, outdated)]

\* isReported counting the missing locales only
isReportedWhenMissing(res) == Len(res.MissingLocales) > 0

\* main: whether a record goes to the report
isReported(res) == Len(res.MissingLocales) + Len(res.OutdatedLocales) > 0

\* main: the loop over the default strings, visited in the order strOrder
RECURSIVE rangeDefaultStrings(_, _, _)
rangeDefaultStrings(localeStrings, strOrder, localeOrders) ==
    IF strOrder = <<>> THEN <<>>
    ELSE LET res == strResource(localeStrings,
                                localeStrings[defaultLocale][Head(strOrder)],
                                localeOrders[Head(strOrder)])
         IN  (IF isReported(res) THEN <<res>> ELSE <<>>)
                 \o rangeDefaultStrings(localeStrings, Tail(strOrder), localeOrders)

\* main: the report of an index, sorted
sortedReport(localeStrings, strOrder, localeOrders) ==
    Sort(rangeDefaultStrings(localeStrings, strOrder, localeOrders))

\* the orders in which the two range statements may visit the maps
StrOrders == Perms(DOMAIN strResources[defaultLocale])
LocaleOrders == [DOMAIN strResources[defaultLocale] -> Perms(DOMAIN strResources)]

\* main: the report is computed and sorted
Compute ==
    /\ pc = "compute"
    /\ \E strOrder \in StrOrders, localeOrders \in LocaleOrders :
        report' = sortedReport(strResources, strOrder, localeOrders)
    /\ pc' = "render"
    /\ UNCHANGED <<outdatedLocales, outputFormat, valuesFiles, fileIdx, si, ai, ii,
                   strResources, err, clock, warnings, inserted, prevReport, rerun,
                   output, exitCode, fatalMsg, call>>

\* the computation run a second time on the same index, before the report is
\* rendered: not a step of main, but the scenario of two runs on one index
ComputeAgain ==
    /\ pc = "render"
    /\ ~rerun
    /\ \E strOrder \in StrOrders, localeOrders \in LocaleOrders :
        report' = sortedReport(strResources, strOrder, localeOrders)
    /\ prevReport' = report
    /\ rerun' = TRUE
    /\ UNCHANGED <<pc, outdatedLocales, outputFormat, valuesFiles, fileIdx, si, ai, ii,
                   strResources, err, clock, warnings, inserted, output, exitCode,
                   fatalMsg, call>>

\* mustRenderJSON: the fields of every record under their JSON names
mustRenderJSON(v) ==
    [format |-> "json",
     records |-> [i \in 1..Len(v) |->
                     [name |-> v[i].Name,
                      value |-> v[i].Value,
                      missing_locales |-> v[i].MissingLocales,
                      outdated_locales |-> v[i].OutdatedLocales]]]

\* renderMarkdownTable: the header and one row per record
renderMarkdownTable(data) ==
    [header |-> << "#", "Name", "Default Value", "Missing Locales" >>
                    \o (IF outdatedLocales THEN << "Potentially Outdated Locales" >> ELSE <<>>),
     rows |-> [i \in 1..Len(data) |->
                  << Decimal(1 + (i - 1)),
                     <<"BACKTICK">> \o data[i].Name \o <<"BACKTICK">>,
                     data[i].Value,
                     MissingLocalesString(data[i]) >>
                      \o (IF outdatedLocales THEN << OutdatedLocalesString(data[i]) >>
                          ELSE <<>>)]]

\* mustRenderMarkdown: the template shows the table unless the report is empty
mustRenderMarkdown(data) ==
    [format |-> "markdown",
     message |-> IF Len(data) = 0
                 THEN IF outdatedLocales
                      THEN "No missing or outdated translations found."
                      ELSE "No missing translations found."
                 ELSE "",
     table |-> IF Len(data) = 0 THEN [header |-> <<>>, rows |-> <<>>]
               ELSE renderMarkdownTable(data)]

\* main: the report is rendered and printed, and main returns
Render ==
    /\ pc = "render"
    /\ output' = IF outputFormat = "json" THEN mustRenderJSON(report)
                 ELSE mustRenderMarkdown(report)
    /\ pc' = "done"
    /\ exitCode' = 0
    /\ UNCHANGED <<outdatedLocales, outputFormat, valuesFiles, fileIdx, si, ai, ii,
                   strResources, err, clock, warnings, inserted, report, prevReport,
                   rerun, fatalMsg, call>>

Next ==
    \/ ParseFlags
    \/ MainFindValuesFiles
    \/ OpenFile
    \/ RangeStrings
    \/ RangeStringArrays
    \/ RangeItems
    \/ ReturnStrings
    \/ CheckDefault
    \/ Compute
    \/ Render

Spec == Init /\ [][Next]_vars

\* the program with the computation run twice on the index
NextRerun ==
    \/ Next
    \/ ComputeAgain

SpecRerun == Init /\ [][NextRerun]_vars

\* the program on the projects whose catalogs share names
NextDuplicates ==
    \/ ParseFlags
    \/ MainFindDuplicateCatalogs
    \/ OpenFile
    \/ RangeStrings
    \/ RangeStringArrays
    \/ RangeItems
    \/ ReturnStrings
    \/ CheckDefault
    \/ Compute
    \/ Render

SpecDuplicates == Init /\ [][NextDuplicates]_vars

(***************************************************************************)
(* getLineRange on every content and search term within the bounds.        *)
(***************************************************************************)
LineChars == {"a", "b", "\n"}

InitLineRange ==
    /\ MainInit
    /\ call \in {[fn |-> "getLineRange", content |-> c, term |-> t, returned |-> FALSE,
                  start |-> 0, count |-> 0, err |-> FALSE] :
                    c \in SeqsUpTo(LineChars, MaxContentLen),
                    t \in SeqsUpTo(LineChars, MaxTermLen)}

CallGetLineRange ==
    /\ call.fn = "getLineRange"
    /\ ~call.returned
    /\ LET r == getLineRange(call.content, call.term)
       IN  call' = [call EXCEPT !.returned = TRUE, !.start = r.start,
                                !.count = r.count, !.err = r.err]
    /\ UNCHANGED mainVars

SpecLineRange == InitLineRange /\ [][CallGetLineRange]_vars

(***************************************************************************)
(* isValuesFile and getLocaleForValuesFile on the files of directories     *)
(* named values, Values or value plus a suffix within the bound.           *)
(***************************************************************************)
SuffixChars == {"-", "f", "r"}

DirNames ==
    {prefix \o suffix :
        prefix \in {sValues, << "V", "a", "l", "u", "e", "s" >>, << "v", "a", "l", "u", "e" >>},
        suffix \in SeqsUpTo(SuffixChars, MaxSuffixLen)}

FileNames ==
    {fStrings, doNotTranslateFileName,
     << "s", "t", "r", "i", "n", "g", "s", ".", "X", "M", "L" >>,
     << "n", "o", "t", "e", "s", ".", "t", "x", "t" >>}

InitLocale ==
    /\ MainInit
    /\ call \in {[fn |-> "getLocaleForValuesFile", path |-> <<d, f>>, returned |-> FALSE,
                  isValues |-> FALSE, locale |-> <<>>] : d \in DirNames, f \in FileNames}

CallGetLocale ==
    /\ call.fn = "getLocaleForValuesFile"
    /\ ~call.returned
    /\ call' = [call EXCEPT !.returned = TRUE,
                            !.isValues = isValuesFile(call.path),
                            !.locale = getLocaleForValuesFile(call.path)]
    /\ UNCHANGED mainVars

SpecLocale == InitLocale /\ [][CallGetLocale]_vars

(***************************************************************************)
(* Properties.                                                             *)
(***************************************************************************)
\* the position of the first hyphen of a name, 0 when it has none
FirstHyphen(name) ==
    IF \E i \in 1..Len(name) : name[i] = "-"
    THEN CHOOSE i \in 1..Len(name) :
             name[i] = "-" /\ \A j \in 1..(i - 1) : name[j] # "-"
    ELSE 0

\* C8: for a file that isValuesFile accepts, the locale is "default" when the
\* parent directory is named "values" or has no hyphen, and otherwise all the
\* text after the first hyphen of the directory's name ("values-<tag>" gives
\* exactly "<tag>").
C8_LocaleOfDirectory ==
    (call.fn = "getLocaleForValuesFile" /\ call.returned /\ call.isValues) =>
        LET parent == call.path[1]
            hyphen == FirstHyphen(parent)
        IN  /\ HasPrefix(parent, sValues)
            /\ parent = sValues => call.locale = defaultLocale
            /\ hyphen = 0 => call.locale = defaultLocale
            /\ hyphen > 0 => call.locale = SubSeq(parent, hyphen + 1, Len(parent))
            /\ HasPrefix(parent, sValues \o <<"-">>) =>
                   call.locale = SubSeq(parent, Len(sValues) + 2, Len(parent))

\* a catalog of directory values-f-r was given the locale f-r
C8_Witness ==
    /\ call.fn = "getLocaleForValuesFile"
    /\ call.returned
    /\ call.isValues
    /\ call.path[1] = sValues \o << "-", "f", "-", "r" >>
    /\ call.locale = << "f", "-", "r" >>

\* whether term occurs in content at position i
OccursAt(term, content, i) ==
    /\ i + Len(term) - 1 <= Len(content)
    /\ SubSeq(content, i, i + Len(term) - 1) = term

Occurs(term, content) == \E i \in 1..(Len(content) + 1) : OccursAt(term, content, i)

FirstOccurrence(term, content) ==
    CHOOSE i \in 1..(Len(content) + 1) :
        OccursAt(term, content, i) /\ \A j \in 1..(i - 1) : ~OccursAt(term, content, j)

Newlines(s) == Cardinality({i \in 1..Len(s) : s[i] = "\n"})

\* C9: getLineRange fails exactly when the term does not occur in the content,
\* and otherwise returns start = 1 + the newlines before the first occurrence
\* and count = 1 + the newlines of the term, for every term, the empty one
\* included.
C9_LineRangeOfFirstOccurrence ==
    (call.fn = "getLineRange" /\ call.returned) =>
        /\ call.err <=> ~Occurs(call.term, call.content)
        /\ ~call.err =>
            /\ call.start = 1 + Newlines(SubSeq(call.content, 1,
                                    FirstOccurrence(call.term, call.content) - 1))
            /\ call.count = 1 + Newlines(call.term)

InSeq(x, s) == \E i \in 1..Len(s) : s[i] = x

NoDuplicates(s) == \A i, j \in 1..Len(s) : s[i] = s[j] => i = j

\* the report has been computed from the index
ReportReady == pc \in {"render", "done"}

\* the default strings of the index a report is computed from
DefaultStrings == strResources[defaultLocale]

\* whether the copy of the default string name is missing in, or older in, a locale
IsMissingIn(locale, name) == name \notin DOMAIN strResources[locale]

IsOlderIn(locale, name) ==
    /\ name \in DOMAIN strResources[locale]
    /\ strResources[locale][name].LastModified < DefaultStrings[name].LastModified

\* C1: every record of the report is of a default string; a locale of the index
\* is in its missing locales exactly when the locale has no string of that name
\* and in its outdated locales exactly when the locale's string is strictly
\* older than the default one; no locale is in both lists or twice in one, and
\* the default locale is in neither.
C1_MissingAndOutdatedLocales ==
    ReportReady =>
        \A k \in 1..Len(report) :
            LET res == report[k]
            IN  /\ res.Name \in DOMAIN DefaultStrings
                /\ \A locale \in DOMAIN strResources :
                    /\ InSeq(locale, res.MissingLocales) <=> IsMissingIn(locale, res.Name)
                    /\ InSeq(locale, res.OutdatedLocales) <=> IsOlderIn(locale, res.Name)
                    /\ ~(InSeq(locale, res.MissingLocales) /\ InSeq(locale, res.OutdatedLocales))
                /\ \A i \in 1..Len(res.MissingLocales) :
                       res.MissingLocales[i] \in DOMAIN strResources
                /\ \A i \in 1..Len(res.OutdatedLocales) :
                       res.OutdatedLocales[i] \in DOMAIN strResources
                /\ NoDuplicates(res.MissingLocales)
                /\ NoDuplicates(res.OutdatedLocales)
                /\ ~InSeq(defaultLocale, res.MissingLocales)
                /\ ~InSeq(defaultLocale, res.OutdatedLocales)

sFr == << "f", "r" >>
sDe == << "d", "e" >>

\* the default string a was edited after its French copy, which the German
\* locale has in a version as new as the default: the record lists fr as outdated
C1_Witness ==
    /\ pc = "done"
    /\ {sFr, sDe} \subseteq DOMAIN strResources
    /\ \E k \in 1..Len(report) :
        /\ report[k].Name = <<"a">>
        /\ report[k].OutdatedLocales = <<sFr>>
        /\ report[k].MissingLocales = <<>>

\* C2: a default string has a record in the report exactly when some locale
\* of the index misses it or holds a strictly older copy; the report holds
\* nothing else, so it is empty when no default string has such a locale.
C2_ReportedIffDiscrepancy ==
    ReportReady =>
        /\ \A name \in DOMAIN DefaultStrings :
            (\E k \in 1..Len(report) : report[k].Name = name)
                <=> \E locale \in DOMAIN strResources :
                        IsMissingIn(locale, name) \/ IsOlderIn(locale, name)
        /\ \A k \in 1..Len(report) : report[k].Name \in DOMAIN DefaultStrings
        /\ (\A name \in DOMAIN DefaultStrings : \A locale \in DOMAIN strResources :
                ~IsMissingIn(locale, name) /\ ~IsOlderIn(locale, name))
               => report = <<>>

\* three locales hold the default string a, none in an older version, and the
\* report is empty
C2_Witness ==
    /\ pc = "done"
    /\ Cardinality(DOMAIN strResources) = 3
    /\ DOMAIN DefaultStrings = {<<"a">>}
    /\ report = <<>>

\* C3: a second computation on the same index yields the report of the first,
\* records and locales in the same order.
C3_SameReportTwice == rerun => report = prevReport

\* C4: the report is sorted by name in strictly ascending order, so no name
\* has two records, and the records are rendered in that order.
C4_SortedByName ==
    /\ ReportReady =>
           \A k \in 1..(Len(report) - 1) : StrLess(report[k].Name, report[k + 1].Name)
    /\ (pc = "done" /\ outputFormat = "json") =>
           /\ Len(output.records) = Len(report)
           /\ \A k \in 1..Len(report) : output.records[k].name = report[k].Name
    /\ (pc = "done" /\ outputFormat = "markdown" /\ report # <<>>) =>
           /\ Len(output.table.rows) = Len(report)
           /\ \A k \in 1..Len(report) :
                  output.table.rows[k][2]
                      = <<"BACKTICK">> \o report[k].Name \o <<"BACKTICK">>

\* a report of two records was rendered
C4_Witness ==
    /\ pc = "done"
    /\ Len(report) = 2
    /\ report[1].Name = <<"a">>
    /\ report[2].Name = << "c", "[", "0", "]" >>

\* the attribute value is "false" in some spelling of upper and lower case
MarkedFalse(translatable) ==
    /\ Len(translatable) = 5
    /\ translatable[1] \in {"f", "F"}
    /\ translatable[2] \in {"a", "A"}
    /\ translatable[3] \in {"l", "L"}
    /\ translatable[4] \in {"s", "S"}
    /\ translatable[5] \in {"e", "E"}

\* the files of valuesFiles that findTranslatableStrings has processed
Processed == {f \in 1..Len(valuesFiles) : f < fileIdx}

HasEntryIn(index, locale, name) == locale \in DOMAIN index /\ name \in DOMAIN index[locale]

HasEntry(locale, name) == HasEntryIn(strResources, locale, name)

\* C5: nothing was stored from a string marked translatable="false" or from an
\* item of a string-array marked so, in any spelling; and unless the parse
\* failed, every other string and every item of every other string-array of a
\* processed file was stored under the locale of its file.
C5_OnlyTranslatableStored ==
    /\ \A source \in inserted :
        LET resources == Catalog(valuesFiles[source[2]])
        IN  IF source[1] = "string"
            THEN ~MarkedFalse(resources.Strings[source[3]].Translatable)
            ELSE ~MarkedFalse(resources.StringArrays[source[3]].Translatable)
    /\ pc # "fatal" =>
        \A f \in Processed :
            LET resources == Catalog(valuesFiles[f])
                locale    == getLocaleForValuesFile(valuesFiles[f])
            IN  /\ \A i \in 1..Len(resources.Strings) :
                    ~MarkedFalse(resources.Strings[i].Translatable) =>
                        /\ <<"string", f, i>> \in inserted
                        /\ HasEntry(locale, resources.Strings[i].Name)
                /\ \A a \in 1..Len(resources.StringArrays) :
                    ~MarkedFalse(resources.StringArrays[a].Translatable) =>
                        \A i \in 0..(Len(resources.StringArrays[a].Items) - 1) :
                            /\ <<"item", f, a, i>> \in inserted
                            /\ HasEntry(locale,
                                        resources.StringArrays[a].Name
                                            \o <<"[">> \o Decimal(i) \o <<"]">>)

\* the default strings with a string marked FALSE, the default array (whose
\* item has an attribute of its own) and the French file with an array marked
\* FALSE were processed
C5_Witness ==
    /\ pc = "main"
    /\ {<<sValues, fStrings>>, <<sValues, fArrays>>, <<dValuesFr, fStrings>>}
           \subseteq {valuesFiles[f] : f \in 1..Len(valuesFiles)}
    /\ Cardinality(inserted) = 3
    /\ HasEntry(defaultLocale, << "c", "[", "0", "]" >>)

\* whether a file declares string or string-array elements
Declares(path) == Len(Catalog(path).Strings) + Len(Catalog(path).StringArrays) > 0

\* C6: the run ends with the error of the default locale, no output and exit
\* code 1 exactly when "default" is no key of the index that was returned; a
\* locale is a key of that index exactly when a file of the locale declares a
\* string or string-array element; and default strings that are all
\* non-translatable give an empty report and exit code 0.
C6_DefaultLocaleError ==
    /\ fatalMsg = "default" =>
           /\ pc = "fatal" /\ exitCode = 1 /\ output = <<>>
           /\ defaultLocale \notin DOMAIN strResources
    /\ pc \in {"compute", "render", "done"} => defaultLocale \in DOMAIN strResources
    /\ (pc \in {"main", "compute", "render", "done"} \/ fatalMsg = "default") =>
           \A locale \in (DOMAIN strResources)
                   \cup {getLocaleForValuesFile(valuesFiles[f]) : f \in 1..Len(valuesFiles)} :
               locale \in DOMAIN strResources
                   <=> \E f \in 1..Len(valuesFiles) :
                           /\ getLocaleForValuesFile(valuesFiles[f]) = locale
                           /\ Declares(valuesFiles[f])
    /\ (pc = "done" /\ DOMAIN DefaultStrings = {}) => (report = <<>> /\ exitCode = 0)

\* the only default file declares no element, the French file does: the run failed
C6_Witness ==
    /\ fatalMsg = "default"
    /\ valuesFiles = << <<sValues, fColors>>, <<dValuesFr, fStrings>> >>
    /\ DOMAIN strResources = {sFr}

\* the element of the current round of the loop over the strings or the items
CurrentName ==
    LET resources == Catalog(valuesFiles[fileIdx])
    IN  IF pc = "strings" THEN resources.Strings[si].Name
        ELSE resources.StringArrays[ai].Name \o <<"[">> \o Decimal(ii) \o <<"]">>

\* a round in which the resolution of the last modification failed
ProvenanceFails == pc \in {"strings", "items"} /\ err' # "nil"

\* C7: a round whose provenance resolution fails stores the entry with the
\* time time.Now() returned, writes one warning and goes on with the loop; only
\* a file that cannot be read or decoded ends findTranslatableStrings with an
\* error, and then no index is returned; a warning never keeps the parse from
\* storing every translatable element of every file.
C7_ProvenanceFailureRecovered ==
    /\ [][ProvenanceFails =>
            /\ HasEntryIn(strResources', getLocaleForValuesFile(valuesFiles[fileIdx]),
                          CurrentName)
            /\ strResources'[getLocaleForValuesFile(valuesFiles[fileIdx])][CurrentName]
                   .LastModified = clock'
            /\ warnings' = warnings + 1
            /\ pc' = pc
            /\ fileIdx' = fileIdx
            /\ exitCode' = exitCode
            /\ IF pc = "strings" THEN si' = si + 1 ELSE ii' = ii + 1]_vars
    /\ [][(pc \in {"parse", "strings", "arrays", "items"} /\ pc' = "fatal") =>
            /\ pc = "parse"
            /\ fatalMsg' \in {"read", "parse"}
            /\ fatalMsg' = "read" \/ ~Catalog(valuesFiles[fileIdx]).wellFormed
            /\ strResources' = EmptyMap]_vars
    /\ [][(pc = "parse" /\ pc' = "main") =>
            \A f \in 1..Len(valuesFiles) :
                LET resources == Catalog(valuesFiles[f])
                    locale    == getLocaleForValuesFile(valuesFiles[f])
                IN  /\ resources.wellFormed
                    /\ \A i \in 1..Len(resources.Strings) :
                        ~MarkedFalse(resources.Strings[i].Translatable) =>
                            HasEntryIn(strResources', locale, resources.Strings[i].Name)]_vars

\* two resolutions failed and the run went on to print its report
C7_Witness ==
    /\ pc = "done"
    /\ exitCode = 0
    /\ warnings = 2
    /\ Len(valuesFiles) = 3

\* C10: with the option outdated-locales off, no record lists an outdated
\* locale and every record has a missing locale, in the report and in both
\* renderings of it.
C10_NoOutdatedWhenOptionOff ==
    (pc = "done" /\ ~outdatedLocales) =>
        /\ \A k \in 1..Len(report) :
            /\ report[k].OutdatedLocales = <<>>
            /\ report[k].MissingLocales # <<>>
        /\ outputFormat = "json" =>
            \A k \in 1..Len(output.records) :
                /\ output.records[k].outdated_locales = <<>>
                /\ output.records[k].missing_locales # <<>>
        /\ outputFormat = "markdown" =>
            \A k \in 1..Len(output.table.rows) : output.table.rows[k][4] # <<"-">>

\* the locale and the element (name, value, attribute) of a stored source
SourceLocale(source) == getLocaleForValuesFile(valuesFiles[source[2]])

SourceElement(source) ==
    LET resources == Catalog(valuesFiles[source[2]])
    IN  IF source[1] = "string"
        THEN resources.Strings[source[3]]
        ELSE [Name |-> resources.StringArrays[source[3]].Name
                           \o <<"[">> \o Decimal(source[4]) \o <<"]">>,
              Value |-> resources.StringArrays[source[3]].Items[source[4] + 1].Value,
              Translatable |->
                  resources.StringArrays[source[3]].Items[source[4] + 1].Translatable]

\* the order of insertion: the files in their order, in a file the strings
\* before the items, the strings and the arrays and their items in their order
InsertedBefore(s, t) ==
    \/ s[2] < t[2]
    \/ /\ s[2] = t[2]
       /\ \/ s[1] = "string" /\ t[1] = "item"
          \/ s[1] = "string" /\ t[1] = "string" /\ s[3] < t[3]
          \/ s[1] = "item" /\ t[1] = "item"
                 /\ (s[3] < t[3] \/ (s[3] = t[3] /\ s[4] < t[4]))

\* the stored sources of a name in a locale, and the last of them
SourcesOf(locale, name) ==
    {s \in inserted : SourceLocale(s) = locale /\ SourceElement(s).Name = name}

LastInserted(locale, name) ==
    CHOOSE s \in SourcesOf(locale, name) :
        \A t \in SourcesOf(locale, name) \ {s} : InsertedBefore(t, s)

\* an entry of the index is the element e
IsEntryOf(entry, e) ==
    /\ entry.Name = e.Name
    /\ entry.Value = e.Value
    /\ entry.Translatable = e.Translatable

\* a step that stores an element in the index
Stores == inserted' # inserted

StoredSource == CHOOSE s \in inserted' : s \notin inserted

\* C11: unless the parse failed, the entry of a locale and a name is the
\* element stored last among the stored elements of that name in that locale,
\* and every stored element has such an entry; a step that stores an element
\* makes it the entry of its locale and name, whether or not the name had an
\* entry, changes no entry of another locale or another name, adds no key but
\* that name, ends the run with no error, and writes a warning only when the
\* resolution of its last modification failed.
C11_LastWriteWins ==
    /\ [](pc # "fatal" =>
            /\ \A locale \in DOMAIN strResources :
                \A name \in DOMAIN strResources[locale] :
                    /\ SourcesOf(locale, name) # {}
                    /\ IsEntryOf(strResources[locale][name],
                                 SourceElement(LastInserted(locale, name)))
            /\ \A s \in inserted :
                HasEntry(SourceLocale(s), SourceElement(s).Name))
    /\ [][Stores =>
            LET locale == SourceLocale(StoredSource)
                str    == SourceElement(StoredSource)
            IN  /\ inserted' = inserted \cup {StoredSource}
                /\ \A t \in inserted : InsertedBefore(t, StoredSource)
                /\ HasEntryIn(strResources', locale, str.Name)
                /\ IsEntryOf(strResources'[locale][str.Name], str)
                /\ DOMAIN strResources' = DOMAIN strResources
                /\ DOMAIN strResources'[locale] = DOMAIN strResources[locale] \cup {str.Name}
                /\ \A l \in DOMAIN strResources :
                    \A n \in DOMAIN strResources[l] :
                        (l # locale \/ n # str.Name) =>
                            strResources'[l][n] = strResources[l][n]
                /\ \A l \in DOMAIN strResources \ {locale} :
                    DOMAIN strResources'[l] = DOMAIN strResources[l]
                /\ pc' = pc
                /\ exitCode' = exitCode
                /\ fatalMsg' = fatalMsg
                /\ warnings' = IF err' = "nil" THEN warnings ELSE warnings + 1]_vars

\* the French locale has the entry a of values-fr/strings.xml, stored after
\* the string a of values-fr/arrays.xml, and the entry c[0] of the array item,
\* stored after the string c[0]; the default locale has its entry, and no
\* warning was written
C11_Witness ==
    /\ pc = "done"
    /\ exitCode = 0
    /\ warnings = 0
    /\ valuesFiles = << <<sValues, fStrings>>, <<dValuesFr, fArrays>>,
                        <<dValuesFr, fStrings>> >>
    /\ Cardinality(SourcesOf(sFr, <<"a">>)) = 2
    /\ Cardinality(SourcesOf(sFr, << "c", "[", "0", "]" >>)) = 2
    /\ strResources[sFr][<<"a">>].Value = << "h", "i" >>
    /\ strResources[sFr][<< "c", "[", "0", "]" >>].Value = <<"x">>
    /\ HasEntry(defaultLocale, <<"a">>)
====
